---- MODULE Spec2Model ----
(***************************************************************************)
(* Model of main/transaction/index.ts (signerCompatibility, londonToLegacy,*)
(* populate, sign, classifyTransaction) and of createObserver in           *)
(* main/provider/assets/index.ts.                                          *)
(*                                                                         *)
(* JavaScript strings are sequences of one-character strings, so that      *)
(* parseInt, BigNumber, toString(16) and addHexPrefix are computed on the  *)
(* characters.  The alphabet is the hex digits in both cases, "x", and     *)
(* letters outside the hex digits; whitespace, signs, "." and exponent     *)
(* notation are outside it.  A key that is missing (or undefined) holds    *)
(* Absent.                                                                 *)
(***************************************************************************)
EXTENDS Integers, Sequences, FiniteSets, TLC

VARIABLES
  \* populate / londonToLegacy pipeline
  rawTx, chainConfig, gas, txData, prevTx, stage,
  \* signerCompatibility
  signer, compatTx, compatibility,
  \* classifyTransaction
  request, classification,
  \* sign
  calls, signerInvocations,
  \* createObserver
  selected, balances, scanning, debouncedAssets, timers, handled

txVars == <<rawTx, chainConfig, gas, txData, prevTx, stage>>
compatVars == <<signer, compatTx, compatibility>>
classVars == <<request, classification>>
signVars == <<calls, signerInvocations>>
obsVars == <<selected, balances, scanning, debouncedAssets, timers, handled>>
vars == <<txVars, compatVars, classVars, signVars, obsVars>>

----------------------------------------------------------------------------
\* Bounds

\* fee levels of the Gas snapshot are n * FeeStep wei, n in 0..MaxFee
MaxFee == 1
FeeStep == 9

----------------------------------------------------------------------------
\* JavaScript values

\* a missing key / undefined
Absent == <<"undefined">>

\* the result of parseInt or BigNumber on text that is no number
NaN == -1

\* !s for a string-or-undefined s
Falsy(s) == s = Absent \/ s = <<>>

LowerDigits == <<"0","1","2","3","4","5","6","7","8","9","a","b","c","d","e","f">>
UpperDigits == <<"0","1","2","3","4","5","6","7","8","9","A","B","C","D","E","F">>

IsLowerHex(c) == \E i \in 1..16 : LowerDigits[i] = c
IsUpperHex(c) == \E i \in 1..16 : UpperDigits[i] = c
IsHexDigit(c) == IsLowerHex(c) \/ IsUpperHex(c)
IsDecDigit(c) == \E i \in 1..10 : LowerDigits[i] = c

DigitValue(c) == (CHOOSE i \in 1..16 : LowerDigits[i] = c \/ UpperDigits[i] = c) - 1

\* the value of a sequence of digits in the given base
RECURSIVE DigitsValue(_, _)
DigitsValue(s, base) ==
  IF s = <<>> THEN 0
  ELSE DigitsValue(SubSeq(s, 1, Len(s) - 1), base) * base + DigitValue(s[Len(s)])

\* isHexPrefixed of @ethereumjs/util
isHexPrefixed(s) == Len(s) >= 2 /\ s[1] = "0" /\ s[2] = "x"

\* the length of the longest prefix of s made of hex digits
RECURSIVE HexPrefixLen(_)
HexPrefixLen(s) ==
  IF s = <<>> \/ ~IsHexDigit(s[1]) THEN 0
  ELSE 1 + HexPrefixLen(Tail(s))

\* parseInt(s, 16): an optional 0x, then the longest run of hex digits; NaN
\* when that run is empty.  parseInt(undefined, 16) reads "undefined": NaN.
parseInt16(s) ==
  LET body == IF isHexPrefixed(s) THEN SubSeq(s, 3, Len(s)) ELSE s
      n == HexPrefixLen(body)
  IN IF n = 0 THEN NaN ELSE DigitsValue(SubSeq(body, 1, n), 16)

isNaN(n) == n = NaN

\* BigNumber(s): a decimal literal, or 0x followed by hex digits that are all
\* lower case or all upper case; anything else (undefined included) is NaN.
BigNumber(s) ==
  LET body == SubSeq(s, 3, Len(s)) IN
  IF s # <<>> /\ \A i \in 1..Len(s) : IsDecDigit(s[i])
    THEN DigitsValue(s, 10)
  ELSE IF isHexPrefixed(s) /\ Len(s) > 2
          /\ (\/ \A i \in 1..Len(body) : IsLowerHex(body[i])
              \/ \A i \in 1..Len(body) : IsUpperHex(body[i]))
    THEN DigitsValue(body, 16)
  ELSE NaN

\* BigNumber.plus
plus(a, b) == IF isNaN(a) \/ isNaN(b) THEN NaN ELSE a + b

\* n.toString(16): lower case, no leading zeros, "NaN" for NaN
RECURSIVE HexDigitsOf(_)
HexDigitsOf(n) ==
  IF n < 16 THEN <<LowerDigits[n + 1]>>
  ELSE Append(HexDigitsOf(n \div 16), LowerDigits[(n % 16) + 1])

toString16(n) == IF isNaN(n) THEN <<"N", "a", "N">> ELSE HexDigitsOf(n)

\* addHexPrefix of @ethereumjs/util: a non-string is returned as it is
addHexPrefix(s) ==
  IF s = Absent THEN s
  ELSE IF isHexPrefixed(s) THEN s
  ELSE <<"0", "x">> \o s

\* intToHex of @ethereumjs/util
intToHex(i) == <<"0", "x">> \o toString16(i)

----------------------------------------------------------------------------
\* populate and londonToLegacy

Frame == "Frame"
Dapp == "Dapp"

\* a mutant of calculateMaxFeePerGas: the priority fee is left out of the sum
calculateMaxFeePerGasBaseOnly(maxBaseFee, maxPriorityFee) ==
  addHexPrefix(toString16(BigNumber(maxBaseFee)))

calculateMaxFeePerGas(maxBaseFee, maxPriorityFee) ==
  LET maxFeePerGas == toString16(plus(BigNumber(maxPriorityFee), BigNumber(maxBaseFee)))
  IN addHexPrefix(maxFeePerGas)

\* a mutant of useFrameValue: a value without the 0x prefix counts as missing
useFrameValueStrict(value) ==
  Falsy(value) \/ isNaN(parseInt16(value)) \/ ~isHexPrefixed(value)

\* !value || isNaN(parseInt(value, 16)): no valid dapp-supplied value
useFrameValue(value) == Falsy(value) \/ isNaN(parseInt16(value))

\* a mutant of legacyType: the access-list activation is not consulted
legacyTypeNoAccessList(chain) == intToHex(0)

\* the type of a transaction on a chain without EIP-1559
legacyType(chain) == intToHex(IF chain.eip2930 THEN 1 ELSE 0)

\* the non-EIP-1559 case of populate
populateLegacy(raw, chain, g) ==
  LET t1 == [raw EXCEPT !.type = legacyType(chain)]
      useFrameGasPrice == useFrameValue(raw.gasPrice)
  IN IF useFrameGasPrice
       THEN [t1 EXCEPT !.gasPrice = addHexPrefix(toString16(BigNumber(g.price.levels.fast))),
                       !.gasFeesSource = Frame]
       ELSE t1

\* a mutant of feesSource: the source flag is rewritten on every call
feesSourceOverwrite(current, useFrameMaxFeePerGas, useFrameMaxPriorityFeePerGas) ==
  IF useFrameMaxFeePerGas /\ useFrameMaxPriorityFeePerGas THEN Frame ELSE Dapp

\* the source flag changes only when neither fee is dapp-supplied
feesSource(current, useFrameMaxFeePerGas, useFrameMaxPriorityFeePerGas) ==
  IF useFrameMaxFeePerGas /\ useFrameMaxPriorityFeePerGas THEN Frame ELSE current

\* the EIP-1559 case of populate
populateLondon(raw, g) ==
  LET t1 == [raw EXCEPT !.type = intToHex(2)]
      fees == g.price.fees
      useFrameMaxFeePerGas == useFrameValue(raw.maxFeePerGas)
      useFrameMaxPriorityFeePerGas == useFrameValue(raw.maxPriorityFeePerGas)
      t2 == [t1 EXCEPT !.gasFeesSource =
                         feesSource(t1.gasFeesSource, useFrameMaxFeePerGas,
                                    useFrameMaxPriorityFeePerGas)]
      maxPriorityFee ==
        IF useFrameMaxPriorityFeePerGas /\ ~Falsy(fees.maxPriorityFeePerGas)
          THEN fees.maxPriorityFeePerGas
          ELSE raw.maxPriorityFeePerGas
      t3 == IF useFrameMaxFeePerGas /\ ~Falsy(fees.maxBaseFeePerGas)
              THEN [t2 EXCEPT !.maxFeePerGas =
                                calculateMaxFeePerGas(fees.maxBaseFeePerGas, maxPriorityFee)]
              ELSE t2
      t4 == IF useFrameMaxPriorityFeePerGas
              THEN [t3 EXCEPT !.maxPriorityFeePerGas =
                                addHexPrefix(toString16(BigNumber(maxPriorityFee)))]
              ELSE t3
  IN IF ~useFrameMaxFeePerGas /\ ~useFrameMaxPriorityFeePerGas THEN t1 ELSE t4

populate(raw, chain, g) ==
  IF ~chain.eip1559 \/ ~g.price.fees.present
    THEN populateLegacy(raw, chain, g)
    ELSE populateLondon(raw, g)

\* a mutant of londonToLegacy: maxPriorityFeePerGas is not removed
londonToLegacyKeepsPriority(tx) ==
  IF tx.type = <<"0", "x", "2">>
    THEN [tx EXCEPT !.type = <<"0", "x", "0">>,
                    !.gasPrice = tx.maxFeePerGas,
                    !.maxFeePerGas = Absent]
    ELSE tx

\* a mutant of londonToLegacy: the type is compared as a number
londonToLegacyByValue(tx) ==
  IF parseInt16(tx.type) = 2
    THEN [tx EXCEPT !.type = <<"0", "x", "0">>,
                    !.gasPrice = tx.maxFeePerGas,
                    !.maxFeePerGas = Absent,
                    !.maxPriorityFeePerGas = Absent]
    ELSE tx

\* { type, maxFeePerGas, maxPriorityFeePerGas, ...tx } = txData;
\* { ...tx, type: '0x0', gasPrice: maxFeePerGas }
londonToLegacy(tx) ==
  IF tx.type = <<"0", "x", "2">>
    THEN [tx EXCEPT !.type = <<"0", "x", "0">>,
                    !.gasPrice = tx.maxFeePerGas,
                    !.maxFeePerGas = Absent,
                    !.maxPriorityFeePerGas = Absent]
    ELSE tx

\* the hex strings of the fee levels the gas calculator writes to the snapshot
FeeLevels == {intToHex(n * FeeStep) : n \in 0..MaxFee}

\* fee fields a request may carry: none, empty, a bare prefix, a decimal
\* looking number, a hex number followed by a character that is no digit,
\* a canonical hex number
RequestFees ==
  {Absent, <<>>, <<"0", "x">>, <<"1", "0">>, <<"0", "x", "9", "g">>, intToHex(FeeStep)}

RequestTypes == {Absent, <<"0", "x", "0">>, <<"0", "x", "2">>, <<"0", "x", "0", "2">>}

Requests ==
  [chainId : {<<"0", "x", "1">>},
   type : RequestTypes,
   nonce : {<<"0", "x", "7">>},
   gasPrice : RequestFees,
   maxFeePerGas : RequestFees,
   maxPriorityFeePerGas : RequestFees,
   gasFeesSource : {Dapp}]

Rulesets == [eip1559 : BOOLEAN, eip2930 : BOOLEAN]

NoFees == [present |-> FALSE, maxBaseFeePerGas |-> Absent, maxPriorityFeePerGas |-> Absent]

SnapshotFees ==
  {NoFees} \cup
  [present : {TRUE},
   maxBaseFeePerGas : {Absent, <<>>} \cup FeeLevels,
   maxPriorityFeePerGas : {Absent, <<>>} \cup FeeLevels]

GasSnapshots ==
  {[price |-> [levels |-> [fast |-> f], fees |-> fs]] :
     f \in {<<>>, intToHex(FeeStep)}, fs \in SnapshotFees}

----------------------------------------------------------------------------
\* The request pipeline: a request arrives, populate fills it against the
\* chain ruleset and the Gas snapshot (and may be applied again to its own
\* output), londonToLegacy downgrades a request or a populated transaction.

IdleCompat ==
  /\ signer = [type |-> "none"]
  /\ compatTx = [type |-> Absent]
  /\ compatibility = [signer |-> "none"]

IdleClass ==
  /\ request = [recipientType |-> "none"]
  /\ classification = "none"

IdleSign ==
  /\ calls = <<>>
  /\ signerInvocations = <<>>

IdleObserver ==
  /\ selected = "none"
  /\ balances = <<>>
  /\ scanning = <<>>
  /\ debouncedAssets = [set |-> FALSE]
  /\ timers = <<>>
  /\ handled = <<>>

IdleTx ==
  /\ rawTx = [type |-> Absent]
  /\ chainConfig = [eip1559 |-> FALSE, eip2930 |-> FALSE]
  /\ gas = [price |-> [levels |-> [fast |-> <<>>], fees |-> NoFees]]
  /\ txData = [type |-> Absent]
  /\ prevTx = [type |-> Absent]
  /\ stage = "none"

Init ==
  /\ rawTx \in Requests
  /\ chainConfig \in Rulesets
  /\ gas \in GasSnapshots
  /\ txData = rawTx
  /\ prevTx = rawTx
  /\ stage = "request"
  /\ IdleCompat /\ IdleClass /\ IdleSign /\ IdleObserver

\* populate(rawTx, chainConfig, gas)
Populate ==
  /\ stage = "request"
  /\ txData' = populate(txData, chainConfig, gas)
  /\ prevTx' = txData
  /\ stage' = "populated"
  /\ UNCHANGED <<rawTx, chainConfig, gas, compatVars, classVars, signVars, obsVars>>

\* populate applied to its own output, same ruleset and snapshot
PopulateAgain ==
  /\ stage = "populated"
  /\ txData' = populate(txData, chainConfig, gas)
  /\ prevTx' = txData
  /\ stage' = "repopulated"
  /\ UNCHANGED <<rawTx, chainConfig, gas, compatVars, classVars, signVars, obsVars>>

\* londonToLegacy applied to the request as it arrived
DowngradeRequest ==
  /\ stage = "request"
  /\ txData' = londonToLegacy(txData)
  /\ prevTx' = txData
  /\ stage' = "request downgraded"
  /\ UNCHANGED <<rawTx, chainConfig, gas, compatVars, classVars, signVars, obsVars>>

\* londonToLegacy applied to an output of populate
DowngradePopulated ==
  /\ stage = "populated"
  /\ txData' = londonToLegacy(txData)
  /\ prevTx' = txData
  /\ stage' = "populated downgraded"
  /\ UNCHANGED <<rawTx, chainConfig, gas, compatVars, classVars, signVars, obsVars>>

Next == Populate \/ PopulateAgain \/ DowngradeRequest \/ DowngradePopulated

Spec == Init /\ [][Next]_vars

----------------------------------------------------------------------------
\* Properties of populate and londonToLegacy

Type0 == <<"0", "x", "0">>
Type1 == <<"0", "x", "1">>
Type2 == <<"0", "x", "2">>

\* the chain ruleset lacks EIP-1559 or the snapshot has no fees
LegacyCase == ~chainConfig.eip1559 \/ ~gas.price.fees.present

\* a fee field that parses as a hex integer
ParsesAsHex(s) == ~isNaN(parseInt16(s))

BothParse == ParsesAsHex(rawTx.maxFeePerGas) /\ ParsesAsHex(rawTx.maxPriorityFeePerGas)
BothMissing == ~ParsesAsHex(rawTx.maxFeePerGas) /\ ~ParsesAsHex(rawTx.maxPriorityFeePerGas)

\* C1: on a chain without EIP-1559, or with a snapshot without fees, the
\* output of populate has type 0x1 when EIP-2930 is activated and 0x0
\* otherwise, and its maxFeePerGas and maxPriorityFeePerGas are those of the
\* request.
C1_LegacyTypeFeesUntouched ==
  (stage = "populated" /\ LegacyCase) =>
    /\ txData.type = (IF chainConfig.eip2930 THEN Type1 ELSE Type0)
    /\ txData.maxFeePerGas = rawTx.maxFeePerGas
    /\ txData.maxPriorityFeePerGas = rawTx.maxPriorityFeePerGas

C1_Witness ==
  /\ stage = "populated" /\ LegacyCase
  /\ chainConfig.eip2930 /\ chainConfig.eip1559
  /\ rawTx.type = Type2
  /\ ParsesAsHex(rawTx.maxFeePerGas)
  /\ ~ParsesAsHex(rawTx.gasPrice)

\* C2 as claimed: with EIP-1559, fees in the snapshot and both fee fields
\* parsing as hex, populate returns the request equal in every field, type
\* included.
C2_ReturnsRequestUnchanged ==
  (stage = "populated" /\ ~LegacyCase /\ BothParse) => txData = rawTx

\* C2 as amended: with EIP-1559, fees in the snapshot and both fee fields
\* parsing as hex, populate returns the request with type set to 0x2 and
\* every other field (gasPrice, fee fields, gasFeesSource included) equal.
C2_ReturnsRequestWithType2 ==
  (stage = "populated" /\ ~LegacyCase /\ BothParse) =>
    txData = [rawTx EXCEPT !.type = Type2]

C2_Witness ==
  /\ stage = "populated" /\ ~LegacyCase /\ BothParse
  /\ rawTx.type = Type0
  /\ rawTx.maxFeePerGas = <<"1", "0">>
  /\ txData.type = Type2

\* the hex encoding of the exact sum of two hex-encoded integers
HexSum(a, b) ==
  IF ParsesAsHex(a) /\ ParsesAsHex(b)
    THEN intToHex(parseInt16(a) + parseInt16(b))
    ELSE <<"no sum">>

FilledFromSnapshot ==
  /\ txData.gasFeesSource = Frame
  /\ txData.maxPriorityFeePerGas = gas.price.fees.maxPriorityFeePerGas
  /\ txData.maxFeePerGas =
       HexSum(gas.price.fees.maxPriorityFeePerGas, gas.price.fees.maxBaseFeePerGas)

\* C3 as claimed: with EIP-1559 and both fee fields missing, populate returns
\* gasFeesSource Frame, the snapshot's maxPriorityFeePerGas, and maxFeePerGas
\* the exact sum of the snapshot's two fees, for every snapshot that has a
\* fees object.
C3_FilledForEverySnapshot ==
  (stage = "populated" /\ ~LegacyCase /\ BothMissing) => FilledFromSnapshot

\* the snapshot's fees object offers both fee values
SnapshotOffersBoth ==
  /\ ~Falsy(gas.price.fees.maxPriorityFeePerGas)
  /\ ~Falsy(gas.price.fees.maxBaseFeePerGas)

\* C3 as amended: the same, for every snapshot whose fees object offers both
\* maxPriorityFeePerGas and maxBaseFeePerGas.
C3_FilledWhenSnapshotOffersBoth ==
  (stage = "populated" /\ ~LegacyCase /\ BothMissing /\ SnapshotOffersBoth) =>
    FilledFromSnapshot

C3_Witness ==
  /\ stage = "populated" /\ ~LegacyCase /\ BothMissing /\ SnapshotOffersBoth
  /\ gas.price.fees.maxPriorityFeePerGas = intToHex(FeeStep)
  /\ gas.price.fees.maxBaseFeePerGas = intToHex(FeeStep)
  /\ txData.maxFeePerGas = intToHex(2 * FeeStep)
  /\ rawTx.maxFeePerGas = <<"0", "x">>

C4_WitnessLegacy ==
  /\ stage = "repopulated"
  /\ LegacyCase
  /\ txData.gasPrice = <<"0", "x", "N", "a", "N">>

IsSet(s) == ~Falsy(s)

\* the type agrees with the fee fields that are set
TypeConsistent(tx) ==
  /\ tx.type = Type2 =>
       IsSet(tx.maxFeePerGas) /\ IsSet(tx.maxPriorityFeePerGas) /\ ~IsSet(tx.gasPrice)
  /\ tx.type \in {Type0, Type1} =>
       IsSet(tx.gasPrice) /\ ~IsSet(tx.maxFeePerGas) /\ ~IsSet(tx.maxPriorityFeePerGas)

\* C5 as claimed: every output of populate, and of londonToLegacy applied to
\* a request or to an output of populate, has a type consistent with the fee
\* fields that are set.
C5_OutputsTypeConsistent ==
  stage # "request" => TypeConsistent(txData)

\* the request carries no fee field of the family populate does not choose
NoStrayFees ==
  IF LegacyCase
    THEN ~IsSet(rawTx.maxFeePerGas) /\ ~IsSet(rawTx.maxPriorityFeePerGas)
    ELSE ~IsSet(rawTx.gasPrice)

\* maxFeePerGas is supplied by the request or can be computed
MaxFeeAvailable ==
  LegacyCase \/ IsSet(rawTx.maxFeePerGas) \/ IsSet(gas.price.fees.maxBaseFeePerGas)

\* C5 as amended: populate and londonToLegacy never remove a fee field the
\* transaction already carries except that londonToLegacy removes the two
\* fee-market fields of a type 0x2 transaction.  The output of populate, and
\* of londonToLegacy applied to that output, is type consistent when the
\* request carries no fee field of the other family and, on the EIP-1559
\* path, maxFeePerGas is set in the request or maxBaseFeePerGas in the
\* snapshot; the output of londonToLegacy applied to a request is type
\* consistent when the request is.
C5_ConsistentWithoutStrayFees ==
  /\ (stage \in {"populated", "repopulated", "populated downgraded"}
        /\ NoStrayFees /\ MaxFeeAvailable) => TypeConsistent(txData)
  /\ (stage = "request downgraded" /\ TypeConsistent(prevTx)) => TypeConsistent(txData)

C5_Witness ==
  /\ stage = "populated downgraded"
  /\ NoStrayFees /\ MaxFeeAvailable
  /\ prevTx.type = Type2
  /\ txData.type = Type0
  /\ txData.gasPrice = intToHex(2 * FeeStep)

----------------------------------------------------------------------------
\* signerCompatibility

\* version components range over 0..MaxMajor, 0..MaxMinor, 0..MaxPatch
MaxMajor == 3
MaxMinor == 11
MaxPatch == 4

\* String.prototype.toLowerCase on the letters the model names use
toLowerChar(c) ==
  CASE c = "T" -> "t"
    [] c = "O" -> "o"
    [] OTHER -> c

toLowerCase(s) == [i \in 1..Len(s) |-> toLowerChar(s[i])]

TrezorOneLower == <<"t", "r", "e", "z", "o", "r", " ", "o", "n", "e">>
TrezorOne == <<"T", "r", "e", "z", "o", "r", " ", "O", "n", "e">>
TrezorT == <<"T", "r", "e", "z", "o", "r", " ", "T">>

\* the keys londonHardforkSigners defines itself
OwnSignerKeys == {"seed", "ring", "ledger", "trezor", "lattice"}

\* keys every object literal inherits from Object.prototype that the model
\* draws signer types from
InheritedKeys == {"toString", "hasOwnProperty"}

\* signer.type in londonHardforkSigners: the in operator also finds the keys
\* inherited through the prototype chain
inLondonHardforkSigners(type) == type \in OwnSignerKeys \cup InheritedKeys

\* londonHardforkSigners[type](version, model), as its truthiness.  The
\* inherited toString returns the string "[object Object]"; the inherited
\* hasOwnProperty(version) looks for a key named after the version: false.
londonHardforkSigners(type, version, model) ==
  CASE type = "seed" -> TRUE
    [] type = "ring" -> TRUE
    [] type = "ledger" ->
         version.major >= 2 \/ (version.major >= 1 /\ version.minor >= 9)
    [] type = "trezor" ->
         IF toLowerCase(IF Falsy(model) THEN <<>> ELSE model) = TrezorOneLower
           THEN \/ version.major >= 2
                \/ /\ version.major >= 1
                   /\ \/ version.minor > 10
                      \/ (version.minor = 10 /\ version.patch >= 4)
           ELSE \/ version.major >= 3
                \/ (version.major = 2 /\ version.minor >= 5)
                \/ (version.major = 2 /\ version.minor = 4 /\ version.patch >= 2)
    [] type = "lattice" -> version.major >= 1 \/ version.minor >= 11
    [] type = "toString" -> TRUE
    [] type = "hasOwnProperty" -> FALSE

\* typeSupportsBaseFee of resources/domain/transaction: the type encodes 2
typeSupportsBaseFee(type) == parseInt16(type) = 2

\* compatible holds the truthiness of the value the code returns
signerCompatibility(tx, s) ==
  IF typeSupportsBaseFee(tx.type)
    THEN [signer |-> s.type, tx |-> "london",
          compatible |-> /\ inLondonHardforkSigners(s.type)
                         /\ londonHardforkSigners(s.type, s.appVersion, s.model)]
    ELSE [signer |-> s.type, tx |-> "legacy", compatible |-> TRUE]

AppVersions == [major : 0..MaxMajor, minor : 0..MaxMinor, patch : 0..MaxPatch]

SignerTypes == OwnSignerKeys \cup InheritedKeys \cup {"keystone"}

SignerSummaries ==
  [type : SignerTypes, appVersion : AppVersions, model : {Absent, TrezorOne, TrezorT}]

InitCompat ==
  /\ signer \in SignerSummaries
  /\ compatTx \in {[type |-> t] : t \in {Absent, Type0, Type1, Type2}}
  /\ compatibility = [signer |-> "none"]
  /\ IdleTx /\ IdleClass /\ IdleSign /\ IdleObserver

\* signerCompatibility(compatTx, signer)
SignerCompatibility ==
  /\ compatibility.signer = "none"
  /\ compatibility' = signerCompatibility(compatTx, signer)
  /\ UNCHANGED <<signer, compatTx, txVars, classVars, signVars, obsVars>>

NextCompat == SignerCompatibility

SpecCompat == InitCompat /\ [][NextCompat]_vars

\* the rule of the compatibility table for the five signer types
TableRule(s) ==
  LET v == s.appVersion IN
  \/ s.type \in {"seed", "ring"}
  \/ s.type = "ledger" /\ (v.major >= 2 \/ (v.major >= 1 /\ v.minor >= 9))
  \/ /\ s.type = "trezor"
     /\ IF s.model = TrezorOne
          THEN \/ v.major >= 2
               \/ v.major >= 1 /\ (v.minor > 10 \/ (v.minor = 10 /\ v.patch >= 4))
          ELSE \/ v.major >= 3
               \/ v.major = 2 /\ v.minor >= 5
               \/ v.major = 2 /\ v.minor = 4 /\ v.patch >= 2
  \/ s.type = "lattice" /\ (v.major >= 1 \/ v.minor >= 11)

\* C7: for a fee-market transaction compatible is true exactly when the
\* signer type is one of the five table entries and its version (and model)
\* satisfies that entry's rule, so it is false for every other signer type
\* string; for a transaction that does not support base fee it is true for
\* every signer.
C7_CompatibleIffTableRule ==
  compatibility.signer # "none" =>
    IF compatTx.type = Type2
      THEN compatibility.compatible = TableRule(signer)
      ELSE compatibility.compatible = TRUE

\* the same, for the signer types that are no key of Object.prototype
C7_HoldsOffThePrototype ==
  (compatibility.signer # "none" /\ signer.type \notin InheritedKeys) =>
    IF compatTx.type = Type2
      THEN compatibility.compatible = TableRule(signer)
      ELSE compatibility.compatible = TRUE

----------------------------------------------------------------------------
\* classifyTransaction

CONTRACT_DEPLOY == "CONTRACT_DEPLOY"
SEND_DATA == "SEND_DATA"
CONTRACT_CALL == "CONTRACT_CALL"
NATIVE_TRANSFER == "NATIVE_TRANSFER"

\* isNonZeroHex of resources/utils: the data carries a payload that is not
\* all zero
isNonZeroHex(hex) ==
  LET payload == IF isHexPrefixed(hex) THEN SubSeq(hex, 3, Len(hex)) ELSE hex
  IN ~Falsy(hex) /\ \E i \in 1..Len(payload) : payload[i] # "0"

\* a mutant of classifyTransaction: SEND_DATA asks for a non-zero payload
classifyTransactionNonZero(req) ==
  LET to == req.to
      data == IF req.data = Absent THEN <<"0", "x">> ELSE req.data
  IN IF Falsy(to) THEN CONTRACT_DEPLOY
     ELSE IF req.recipientType = "external" /\ isNonZeroHex(data) THEN SEND_DATA
     ELSE IF isNonZeroHex(data) /\ req.recipientType # "external" THEN CONTRACT_CALL
     ELSE NATIVE_TRANSFER

\* req holds params[0].to, params[0].data and recipientType
classifyTransaction(req) ==
  LET to == req.to
      data == IF req.data = Absent THEN <<"0", "x">> ELSE req.data
  IN IF Falsy(to) THEN CONTRACT_DEPLOY
     ELSE IF req.recipientType = "external" /\ Len(data) > 2 THEN SEND_DATA
     ELSE IF isNonZeroHex(data) /\ req.recipientType # "external" THEN CONTRACT_CALL
     ELSE NATIVE_TRANSFER

Address == <<"0", "x", "a", "1">>

RequestData ==
  {Absent, <<>>, <<"0", "x">>, <<"0", "x", "0">>, <<"0", "x", "0", "0">>,
   <<"0", "x", "0", "0", "0", "0">>, <<"0", "x", "a", "b", "c", "d">>,
   <<"0", "x", "0", "a">>, <<"0", "x", "1">>}

TransactionRequests ==
  [to : {Absent, <<>>, Address},
   data : RequestData,
   recipientType : {"external", "contract", "unknown"}]

InitClass ==
  /\ request \in TransactionRequests
  /\ classification = "none"
  /\ IdleTx /\ IdleCompat /\ IdleSign /\ IdleObserver

\* classifyTransaction(request)
ClassifyTransaction ==
  /\ classification = "none"
  /\ classification' = classifyTransaction(request)
  /\ UNCHANGED <<request, txVars, compatVars, signVars, obsVars>>

NextClass == ClassifyTransaction

SpecClass == InitClass /\ [][NextClass]_vars

\* the data of the request, '0x' when the request has none
DataOf(req) == IF req.data = Absent THEN <<"0", "x">> ELSE req.data

\* the data is longer than the empty marker '0x'
BeyondEmptyMarker(d) == Len(d) > Len(<<"0", "x">>)

\* the payload after the 0x marker is there and all zero
AllZeroPayload(d) ==
  /\ isHexPrefixed(d) /\ Len(d) > 2
  /\ \A i \in 3..Len(d) : d[i] = "0"

\* C8: classifyTransaction returns one of the four categories, the first
\* that matches in the order CONTRACT_DEPLOY (no to), SEND_DATA (external
\* recipient, data beyond '0x'), CONTRACT_CALL (non-zero payload, recipient
\* not external), NATIVE_TRANSFER; data that is longer than '0x' and all
\* zero gives SEND_DATA for an external recipient and NATIVE_TRANSFER for
\* any other.
C8_ClassifyFirstMatch ==
  classification # "none" =>
    LET d == DataOf(request)
        external == request.recipientType = "external"
    IN /\ classification \in {CONTRACT_DEPLOY, SEND_DATA, CONTRACT_CALL, NATIVE_TRANSFER}
       /\ Falsy(request.to) => classification = CONTRACT_DEPLOY
       /\ (~Falsy(request.to) /\ external /\ BeyondEmptyMarker(d)) =>
            classification = SEND_DATA
       /\ (~Falsy(request.to) /\ ~external /\ isNonZeroHex(d)) =>
            classification = CONTRACT_CALL
       /\ (~Falsy(request.to) /\ ~(external /\ BeyondEmptyMarker(d))
             /\ ~(~external /\ isNonZeroHex(d))) =>
            classification = NATIVE_TRANSFER
       /\ (~Falsy(request.to) /\ AllZeroPayload(d)) =>
            classification = (IF external THEN SEND_DATA ELSE NATIVE_TRANSFER)

C8_Witness ==
  /\ classification = SEND_DATA
  /\ request.to = Address
  /\ request.data = <<"0", "x", "0", "0">>

C8_WitnessNative ==
  /\ classification = NATIVE_TRANSFER
  /\ request.to = Address
  /\ request.recipientType = "contract"
  /\ request.data = <<"0", "x", "0", "0", "0", "0">>

----------------------------------------------------------------------------
\* sign

\* the number of sign calls in flight
NumCalls == 2

CallIds == 1..NumCalls

NoCommon == [chainId |-> NaN, hardfork |-> "none"]
NoSignature == [v |-> Absent, r |-> Absent, s |-> Absent]
NoTx == [data |-> [chainId |-> Absent], common |-> NoCommon]

\* the chain ids the ruleset resolver knows
KnownChainIds == {1}

\* chainConfig of main/chains/config: the ruleset of (chainId, hardfork); it
\* fails for a chain id it does not know
chainConfigResolves(chainId) == chainId \in KnownChainIds

chainConfigOf(chainId, hardfork) == [chainId |-> chainId, hardfork |-> hardfork]

\* a mutant of hardforkOf: every transaction is bound to london
hardforkAlwaysLondon(raw) == "london"

\* parseInt(rawTx.type, 16) === 2 ? 'london' : 'berlin'
hardforkOf(raw) == IF parseInt16(raw.type) = 2 THEN "london" ELSE "berlin"

\* a 0x-prefixed string of hex digits, the form TransactionFactory accepts
IsHexString(s) ==
  /\ isHexPrefixed(s)
  /\ \A i \in 3..Len(s) : IsHexDigit(s[i])

\* TransactionFactory.fromTxData throws on a field that is no hex string; a
\* field that is absent takes its default
fromTxDataAccepts(data) ==
  \A f \in DOMAIN data : data[f] = Absent \/ IsHexString(data[f])

fromTxData(data, common) == [data |-> data, common |-> common]

hexifySignature(sig) ==
  [v |-> addHexPrefix(sig.v), r |-> addHexPrefix(sig.r), s |-> addHexPrefix(sig.s)]

\* { ...rawTx, ...signature }
Merge(raw, signature) ==
  [raw EXCEPT !.v = signature.v, !.r = signature.r, !.s = signature.s]

SignRequests ==
  [chainId : {<<"0", "x", "1">>, <<"0", "x", "6", "3">>},
   type : {Absent, Type0, Type2, <<"0", "x", "0", "2">>},
   nonce : {<<"0", "x", "7">>, <<"z", "z">>},
   v : {Absent}, r : {Absent}, s : {Absent}]

Signatures ==
  [v : {<<"1", "b">>, <<"0", "x", "1", "b">>},
   r : {<<"a", "b">>, <<"0", "x", "a", "b">>, <<"z", "z">>},
   s : {<<"c", "d">>}]

\* a call of sign: its argument, where it stands, what it built, the state
\* of the promise signingFn returned, and what the call settled with
NewCall(raw) ==
  [rawTx |-> raw, pc |-> "called", common |-> NoCommon, tx |-> NoTx,
   signing |-> "not invoked", sig |-> NoSignature, result |-> NoTx, error |-> "none"]

InitSign ==
  /\ calls \in [CallIds -> {NewCall(raw) : raw \in SignRequests}]
  /\ signerInvocations = [c \in CallIds |-> 0]
  /\ IdleTx /\ IdleCompat /\ IdleClass /\ IdleObserver

\* the synchronous part of sign: resolve the ruleset, build the transaction,
\* invoke signingFn; an exception rejects the promise sign returns
SignStart(c) ==
  LET call == calls[c]
      chainId == parseInt16(call.rawTx.chainId)
      common == chainConfigOf(chainId, hardforkOf(call.rawTx))
  IN /\ call.pc = "called"
     /\ IF ~chainConfigResolves(chainId)
          THEN /\ calls' = [calls EXCEPT ![c].pc = "rejected", ![c].error = "ruleset"]
               /\ UNCHANGED signerInvocations
        ELSE IF ~fromTxDataAccepts(call.rawTx)
          THEN /\ calls' = [calls EXCEPT ![c].pc = "rejected", ![c].error = "build",
                                         ![c].common = common]
               /\ UNCHANGED signerInvocations
        ELSE /\ calls' = [calls EXCEPT ![c].pc = "awaiting", ![c].common = common,
                                       ![c].tx = fromTxData(call.rawTx, common),
                                       ![c].signing = "pending"]
             /\ signerInvocations' = [signerInvocations EXCEPT ![c] = @ + 1]
     /\ UNCHANGED <<txVars, compatVars, classVars, obsVars>>

\* signingFn's promise resolves with sig: the then callback hexifies it,
\* merges it into rawTx and builds the signed transaction
SignerResolves(c, sig) ==
  LET call == calls[c]
      signed == Merge(call.rawTx, hexifySignature(sig))
  IN /\ call.pc = "awaiting"
     /\ IF fromTxDataAccepts(signed)
          THEN calls' = [calls EXCEPT ![c].pc = "fulfilled", ![c].signing = "resolved",
                                      ![c].sig = sig,
                                      ![c].result = fromTxData(signed, call.common)]
          ELSE calls' = [calls EXCEPT ![c].pc = "rejected", ![c].signing = "resolved",
                                      ![c].sig = sig, ![c].error = "signed build"]
     /\ UNCHANGED <<signerInvocations, txVars, compatVars, classVars, obsVars>>

\* signingFn's promise rejects: the rejection is the outcome of sign
SignerRejects(c) ==
  /\ calls[c].pc = "awaiting"
  /\ calls' = [calls EXCEPT ![c].pc = "rejected", ![c].signing = "rejected",
                            ![c].error = "signer"]
  /\ UNCHANGED <<signerInvocations, txVars, compatVars, classVars, obsVars>>

NextSign ==
  \E c \in CallIds :
    \/ SignStart(c)
    \/ \E sig \in Signatures : SignerResolves(c, sig)
    \/ SignerRejects(c)

SpecSign == InitSign /\ [][NextSign]_vars

\* what holds of a sign call in every state
SignCallInvariant(c) ==
  LET call == calls[c] IN
  /\ signerInvocations[c] <= 1
  /\ signerInvocations[c] = 1 =>
       /\ call.common.chainId \in KnownChainIds
       /\ call.common.hardfork = (IF parseInt16(call.rawTx.type) = 2 THEN "london" ELSE "berlin")
       /\ call.tx.data = call.rawTx
       /\ call.tx.common = call.common
  /\ call.pc = "rejected" =>
       /\ call.result = NoTx
       /\ call.error \in {"ruleset", "build", "signer", "signed build"}
       /\ call.error \in {"ruleset", "build"} <=> signerInvocations[c] = 0
  /\ call.pc = "fulfilled" =>
       /\ call.signing = "resolved"
       /\ signerInvocations[c] = 1
       /\ call.result.common = call.common
       /\ isHexPrefixed(call.result.data.v) /\ IsHexString(call.result.data.v)
       /\ isHexPrefixed(call.result.data.r) /\ IsHexString(call.result.data.r)
       /\ isHexPrefixed(call.result.data.s) /\ IsHexString(call.result.data.s)
       /\ parseInt16(call.result.data.v) = parseInt16(call.sig.v)
       /\ parseInt16(call.result.data.r) = parseInt16(call.sig.r)
       /\ parseInt16(call.result.data.s) = parseInt16(call.sig.s)
       /\ call.result.data.chainId = call.rawTx.chainId
       /\ call.result.data.type = call.rawTx.type
       /\ call.result.data.nonce = call.rawTx.nonce
  /\ call.signing = "pending" => call.pc = "awaiting"

\* what holds of every step of a sign call
SignCallStep(c) ==
  /\ calls[c].pc \in {"rejected", "fulfilled"} =>
       /\ calls'[c] = calls[c]
       /\ signerInvocations'[c] = signerInvocations[c]
  /\ (calls[c].pc = "awaiting" /\ calls'[c].pc # "awaiting") =>
       calls'[c].signing \in {"resolved", "rejected"}
  /\ calls'[c] # calls[c] =>
       \A d \in CallIds \ {c} :
         calls'[d] = calls[d] /\ signerInvocations'[d] = signerInvocations[d]

\* C9: in every execution of sign the signer is invoked at most once, and
\* only after the ruleset (london iff type is 2, else berlin) was resolved
\* and the first build succeeded; a failure of the ruleset, of a build or of
\* the signer ends the call as a failure, with no retry and no signed
\* transaction; a signed transaction is returned only after the signer
\* resolved and the build with the hex-prefixed v, r, s merged into the
\* original fields succeeded; a call whose signer has not settled stays
\* awaiting, and a step of one call changes no other call.
C9_SignOrchestration ==
  /\ [](\A c \in CallIds : SignCallInvariant(c))
  /\ [][\A c \in CallIds : SignCallStep(c)]_vars

C9_Witness ==
  /\ calls[1].pc = "fulfilled"
  /\ calls[1].sig.v = <<"1", "b">>
  /\ calls[1].result.data.v = <<"0", "x", "1", "b">>
  /\ calls[1].common.hardfork = "london"
  /\ calls[1].rawTx.type = <<"0", "x", "0", "2">>
  /\ calls[2].pc = "awaiting"

C9_WitnessFailures ==
  /\ calls[1].pc = "rejected" /\ calls[1].error = "signed build"
  /\ calls[2].pc = "rejected" /\ calls[2].error = "build"

----------------------------------------------------------------------------
\* createObserver

Accounts == {"0xa1", "0xb2"}

\* a balance of the store: the native currency or an ERC-20 token, hidden
\* (by preference or by default) or shown
TokenBalances ==
  {[native |-> TRUE, hidden |-> FALSE],
   [native |-> FALSE, hidden |-> FALSE],
   [native |-> FALSE, hidden |-> TRUE]}

NoAssets == [fetchedFor |-> "none", nativeCurrency |-> {}, erc20 |-> {}]

\* fetchAssets(accountId): the balances of the account that are not hidden,
\* split into native currency and ERC-20.  fetchedFor records the account the
\* assets were read for; the JavaScript object does not carry it.
fetchAssets(accountId) ==
  [fetchedFor |-> accountId,
   nativeCurrency |-> {b \in balances[accountId] : ~b.hidden /\ b.native},
   erc20 |-> {b \in balances[accountId] : ~b.hidden /\ ~b.native}]

\* isScanning(account): lastUpdated is missing or older than five minutes
isScanning(account) == scanning[account]

InitObserver ==
  /\ selected \in Accounts \cup {"none"}
  /\ balances \in [Accounts -> {{}, {[native |-> TRUE, hidden |-> FALSE]}}]
  /\ scanning \in [Accounts -> BOOLEAN]
  /\ debouncedAssets = [set |-> FALSE, assets |-> NoAssets]
  /\ timers = <<>>
  /\ handled = [called |-> FALSE, address |-> "none", assets |-> NoAssets]
  /\ IdleTx /\ IdleCompat /\ IdleClass /\ IdleSign

\* the function createObserver returns, run by the store on a change.  The
\* timeout callback keeps the currentAccountId of the run that scheduled it.
Observe ==
  /\ IF selected # "none"
       THEN LET currentAccountId == selected
                assets == fetchAssets(currentAccountId)
            IN IF /\ ~isScanning(currentAccountId)
                  /\ (assets.erc20 # {} \/ assets.nativeCurrency # {})
                 THEN /\ timers' = IF ~debouncedAssets.set
                                     THEN Append(timers, currentAccountId)
                                     ELSE timers
                      /\ debouncedAssets' = [set |-> TRUE, assets |-> assets]
                 ELSE UNCHANGED <<timers, debouncedAssets>>
       ELSE UNCHANGED <<timers, debouncedAssets>>
  /\ UNCHANGED <<selected, balances, scanning, handled>>
  /\ UNCHANGED <<txVars, compatVars, classVars, signVars>>

\* the timeout callback, 800 ms after it was scheduled; timeouts of the same
\* delay run in the order they were scheduled
TimerFires ==
  /\ timers # <<>>
  /\ LET currentAccountId == Head(timers)
     IN IF debouncedAssets.set
          THEN /\ handled' = [called |-> TRUE, address |-> currentAccountId,
                              assets |-> debouncedAssets.assets]
               /\ debouncedAssets' = [set |-> FALSE, assets |-> NoAssets]
          ELSE UNCHANGED <<handled, debouncedAssets>>
  /\ timers' = Tail(timers)
  /\ UNCHANGED <<selected, balances, scanning>>
  /\ UNCHANGED <<txVars, compatVars, classVars, signVars>>

\* the store: another account (or none) becomes selected.current
SelectAccount(a) ==
  /\ a # selected
  /\ selected' = a
  /\ UNCHANGED <<balances, scanning, debouncedAssets, timers, handled>>
  /\ UNCHANGED <<txVars, compatVars, classVars, signVars>>

\* the store: the balances of an account change
SetBalances(a, bs) ==
  /\ bs # balances[a]
  /\ balances' = [balances EXCEPT ![a] = bs]
  /\ UNCHANGED <<selected, scanning, debouncedAssets, timers, handled>>
  /\ UNCHANGED <<txVars, compatVars, classVars, signVars>>

\* the store or the clock: the account's lastUpdated becomes fresh or stale
SetScanning(a) ==
  /\ scanning' = [scanning EXCEPT ![a] = ~@]
  /\ UNCHANGED <<selected, balances, debouncedAssets, timers, handled>>
  /\ UNCHANGED <<txVars, compatVars, classVars, signVars>>

NextObserver ==
  \/ Observe
  \/ TimerFires
  \/ \E a \in Accounts \cup {"none"} : SelectAccount(a)
  \/ \E a \in Accounts, bs \in SUBSET TokenBalances : SetBalances(a, bs)
  \/ \E a \in Accounts : SetScanning(a)

SpecObserver == InitObserver /\ [][NextObserver]_vars

\* C10: at most one debounce timer is pending, and every call
\* handler.assetsChanged(address, assets) passes assets that were fetched
\* for that address.
C10_AssetsOfTheSameAccount ==
  /\ Len(timers) <= 1
  /\ handled.called => handled.assets.fetchedFor = handled.address

\* the part of C10 the observer keeps: a timer is pending exactly while
\* debouncedAssets is set
C10_OneTimerWhileDebouncing ==
  /\ Len(timers) <= 1
  /\ Len(timers) = 1 <=> debouncedAssets.set

====
